---- MODULE Spec2Model ----
(***************************************************************************)
(* Model of the native engine's sandbox (engines/native/sandbox.go):       *)
(* the one-shot resolution gate raced by Kill, Abort and the natural-exit  *)
(* watcher, and the session registry used by NewShell and abortShells.     *)
(***************************************************************************)
EXTENDS Integers, Sequences, FiniteSets, TLC

\* ----------------------------------------------------------------- bounds
NumCallers == 2      \* concurrent API callers (goroutines calling the sandbox)
MaxCalls   == 3      \* total number of API calls issued over one behaviour
MaxShells  == 2      \* number of sessions that can be spawned successfully
NumVMCallers == 2    \* concurrent callers of one VirtualMachine
MaxVMCalls == 3      \* total number of VirtualMachine calls over one behaviour

Callers  == 1..NumCallers
ShellIds == 1..MaxShells
Watcher  == 0        \* identity of the waitForTermination goroutine in the trace
Ops      == {"Kill", "Abort", "WaitForResult", "NewShell"}

VARIABLES
    createUser,   \* engine.config.CreateUser; the sandbox owns user and workingFolder iff TRUE
    procState,    \* s.process: "running" or "exited"
    procSuccess,  \* what s.process.Wait() returns once exited
    started,      \* s.resolve: a caller has been admitted to run its body
    done,         \* s.resolve: the admitted body has finished
    resultSet,    \* s.resultSet
    resultErr,    \* s.resultErr
    abortErr,     \* s.abortErr
    count,        \* s.sessions: number of active sessions
    draining,     \* s.sessions: no new session accepted
    mShells,      \* s.mShells: 0 when free, else the caller holding it
    shells,       \* s.shells
    shellState,   \* per session: "unused", "running", "done" (completion hook has run)
    aborted,      \* per session: S.Abort() was called on it
    userRemoved,  \* s.user.Remove() was called
    folderRemoved,\* s.workingFolder.Remove() was called
    pc,           \* per caller: position in the method it is executing
    op,           \* per caller: the method it is executing / last executed
    ret,          \* per caller: what its last completed call returned
    atCall,       \* per caller: draining / done flags observed when the call began
    calls,        \* number of API calls issued so far
    wpc,          \* position of the waitForTermination goroutine
    wsuccess,     \* its local variable success
    trace,        \* history: teardown steps executed, in order, with who executed them
    bodies        \* history: resolve.Do bodies that were entered

\* newSandbox (construction of a sandbox from a sandboxBuilder)
VARIABLES
    bctx,         \* b.payload.Context: file name of the download, <<>> when not configured
    bpc,          \* position of newSandbox
    bfolder,      \* workingFolder: "nil", "held", "removed"
    buser,        \* user: "nil", "created", "ambient", "removed"
    berr,         \* the local variable err the deferred function looks at
    bret,         \* what newSandbox returned: "none", "ok", "error", "MalformedPayloadError"
    bacq,         \* history: what the sandbox acquired and owns, in order
    brel,         \* history: what was released, in order
    fpc,          \* position of fetchContext
    funpacked,    \* fetchContext: unpackedFile
    ferr          \* fetchContext: err

\* VirtualMachine (engines/qemu/vm/vm.go)
VARIABLES
    vstarted,     \* vm.started
    vmLock,       \* vm.m is held by the exit watcher (other holders release it in the same step)
    network,      \* vm.network: "held" or "nil"
    image,        \* vm.image: "held" or "nil"
    netReleases,  \* history: number of network.Release() calls
    imgReleases,  \* history: number of image.Release() calls
    socketFolder, \* vm.socketFolder: "dir" or ""
    dirExists,    \* the private socket directory exists on disk
    qemu,         \* vm.qemu process: "notstarted", "running", "exited"
    werr,         \* what vm.qemu.Wait() returns: "nil", "exit", "killed"
    doneCloses,   \* number of close(vm.qemuDone) executed; Done is closed when > 0
    vError,       \* vm.Error
    vpc,          \* per caller: position in the method it is executing
    vop,          \* per caller: the method it is executing / last executed
    vret,         \* per caller: what VNCSocket returned and what held at that moment
    vAtCall,      \* per caller: whether Done was closed when the call began
    vcalls,       \* number of calls issued so far
    serr,         \* Start: err received from socketsReady
    mpc,          \* readiness monitor goroutine: "none", "loop", "sending", "stopped"
    merr,         \* the error the monitor is sending
    vncReady,     \* monitor local
    qmpReady,     \* monitor local
    readyClosed,  \* the channel returned by waitForSockets was closed
    xpc,          \* exit watcher goroutine: "none", "wait", "lock", "release", "remove", "close", "done"
    xwerr,        \* exit watcher local werr
    vadmit,       \* history: number of Start calls that passed the started check
    vrecv         \* history: readiness error Start handled and vm.Error at that moment

buildVars == <<bctx, bpc, bfolder, buser, berr, bret, bacq, brel, fpc, funpacked, ferr>>

\* what the methods and goroutines of a constructed sandbox never touch
vmVars == <<vstarted, vmLock, network, image, netReleases, imgReleases, socketFolder,
            dirExists, qemu, werr, doneCloses, vError, vpc, vop, vret, vAtCall, vcalls,
            serr, mpc, merr, vncReady, qmpReady, readyClosed, xpc, xwerr, vadmit, vrecv>>

extVars == <<buildVars, vmVars>>

vars == <<createUser, procState, procSuccess, started, done, resultSet, resultErr,
          abortErr, count, draining, mShells, shells, shellState, aborted,
          userRemoved, folderRemoved, pc, op, ret, atCall, calls, wpc, wsuccess,
          trace, bodies, extVars>>

procVars    == <<procState, procSuccess>>
onceVars    == <<started, done>>
resultVars  == <<resultSet, resultErr, abortErr>>
wgVars      == <<count, draining>>
shellVars   == <<mShells, shells, shellState, aborted>>
ownedVars   == <<userRemoved, folderRemoved>>
callerVars  == <<pc, op, ret, atCall, calls>>
watcherVars == <<wpc, wsuccess>>

\* ------------------------------------------------------------------ values
NoResult       == [set |-> FALSE, success |-> FALSE]
ResultOf(b)    == [set |-> TRUE, success |-> b]
NoRet          == [rs |-> NoResult, err |-> "none", sh |-> 0]
ErrRet(e)      == [rs |-> NoResult, err |-> e, sh |-> 0]

Step(t, s) == [by |-> t, op |-> IF t = Watcher THEN "Exit" ELSE op[t], step |-> s]
Log(entries) == trace' = trace \o entries

\* ------------------------------------------------ atomics.Once (s.resolve)
\* Do admits exactly one caller: entered is TRUE for the first caller only.
\* A caller that is not admitted is not held back here; Kill and Abort wait
\* for the admitted body through Wait (any blocking inside Do only removes
\* interleavings from the ones explored).
OnceDoBegin(entered) ==
    /\ entered = ~started
    /\ started' = TRUE
    /\ UNCHANGED done

\* the admitted caller's body has returned
OnceDoEnd ==
    /\ done' = TRUE
    /\ UNCHANGED started

\* Wait blocks until the admitted body has finished
OnceWait == done

\* ------------------------------------------ atomics.WaitGroup (s.sessions)
WaitGroupAdd(failed) ==
    /\ failed = draining
    /\ count' = IF draining THEN count ELSE count + 1
    /\ UNCHANGED draining

WaitGroupDone ==
    /\ count' = count - 1
    /\ UNCHANGED draining

WaitGroupDrain ==
    /\ draining' = TRUE
    /\ UNCHANGED count

WaitGroupWait == count = 0

\* WaitAndDrain blocks until the count is zero and closes the registry in
\* the same critical section, so no Add slips in between
WaitGroupWaitAndDrain ==
    /\ count = 0
    /\ draining' = TRUE
    /\ UNCHANGED count

\* ------------------------------------------------------------------- Init
\* --------------------------------------------------------------- file names
\* a file name is the sequence of its dot-separated parts
NoContext == <<>>
Contexts == {NoContext, <<"ctx", "zip">>, <<"ctx", "gz">>, <<"ctx", "tar", "gz">>,
             <<"ctx", "bin">>, <<"ctx">>}

\* filepath.Ext: the suffix after the last dot, "" when there is none
Ext(f) == IF Len(f) > 1 THEN f[Len(f)] ELSE ""

\* unpack.Gunzip names the unpacked file after the archive, without its .gz
GunzipName(f) == SubSeq(f, 1, Len(f) - 1)

\* newSandbox has returned a sandbox (lines 110-122): the user and, when
\* CreateUser is set, the working folder are held, nothing was released
Constructed ==
    /\ bpc = "returned"
    /\ bfolder = IF createUser THEN "held" ELSE "nil"
    /\ buser = IF createUser THEN "created" ELSE "ambient"
    /\ berr = "nil"
    /\ bret = "ok"
    /\ bacq = IF createUser THEN <<"folder", "user">> ELSE <<>>
    /\ brel = <<>>
    /\ fpc = IF bctx = NoContext THEN "idle" ELSE "done"
    /\ funpacked = IF Ext(bctx) = "gz" THEN GunzipName(bctx) ELSE <<>>
    /\ ferr = "nil"


\* ------------------------------------------------------- NewVirtualMachine
VMCallers == 1..NumVMCallers
VMOps == {"Start", "Kill", "VNCSocket"}
NoVMRet == [val |-> "none", done |-> FALSE, dir |-> FALSE]
NoRecv == [err |-> "nil", prior |-> "nil"]

\* lines 41-229: a configured virtual machine that was not started; image and
\* network are held, the private socket directory is there, Done is open
VMNew ==
    /\ vstarted = FALSE
    /\ vmLock = FALSE
    /\ network = "held"
    /\ image = "held"
    /\ netReleases = 0
    /\ imgReleases = 0
    /\ socketFolder = "dir"
    /\ dirExists = TRUE
    /\ qemu = "notstarted"
    /\ werr = "nil"
    /\ doneCloses = 0
    /\ vError = "nil"
    /\ vpc = [t \in VMCallers |-> "idle"]
    /\ vop = [t \in VMCallers |-> "none"]
    /\ vret = [t \in VMCallers |-> NoVMRet]
    /\ vAtCall = [t \in VMCallers |-> FALSE]
    /\ vcalls = 0
    /\ serr = "nil"
    /\ mpc = "none"
    /\ merr = "nil"
    /\ vncReady = FALSE
    /\ qmpReady = FALSE
    /\ readyClosed = FALSE
    /\ xpc = "none"
    /\ xwerr = "nil"
    /\ vadmit = 0
    /\ vrecv = NoRecv


Init ==
    /\ createUser \in BOOLEAN
    /\ procState = "running"
    /\ procSuccess = FALSE
    /\ started = FALSE
    /\ done = FALSE
    /\ resultSet = NoResult
    /\ resultErr = "nil"
    /\ abortErr = "nil"
    /\ count = 0
    /\ draining = FALSE
    /\ mShells = 0
    /\ shells = <<>>
    /\ shellState = [s \in ShellIds |-> "unused"]
    /\ aborted = [s \in ShellIds |-> FALSE]
    /\ userRemoved = FALSE
    /\ folderRemoved = FALSE
    /\ pc = [t \in Callers |-> "idle"]
    /\ op = [t \in Callers |-> "none"]
    /\ ret = [t \in Callers |-> NoRet]
    /\ atCall = [t \in Callers |-> [draining |-> FALSE, done |-> FALSE]]
    /\ calls = 0
    /\ wpc = "p_wait"
    /\ wsuccess = FALSE
    /\ trace = <<>>
    /\ bodies = {}
    /\ bctx = NoContext
    /\ Constructed
    /\ VMNew


\* ---------------------------------------------------------------- helpers
Return(t, r) ==
    /\ pc' = [pc EXCEPT ![t] = "idle"]
    /\ ret' = [ret EXCEPT ![t] = r]
    /\ UNCHANGED <<op, atCall, calls>>

Goto(t, l) ==
    /\ pc' = [pc EXCEPT ![t] = l]
    /\ UNCHANGED <<op, ret, atCall, calls>>

FirstLabel(o) ==
    CASE o = "Kill"          -> "k_do"
      [] o = "Abort"         -> "a_do"
      [] o = "WaitForResult" -> "w_wait"
      [] o = "NewShell"      -> "n_add"

\* system.KillProcessTree(s.process): the primary process is gone afterwards;
\* a process killed while running reports failure
KillProcessTree ==
    /\ procState' = "exited"
    /\ procSuccess' = IF procState = "running" THEN FALSE ELSE procSuccess

Remove(seq, x) == SelectSeq(seq, LAMBDA y : y # x)

InShells(x) == \E i \in 1..Len(shells) : shells[i] = x

Unused == {x \in ShellIds : shellState[x] = "unused"}

\* ------------------------------------------------------- callers and process
\* a goroutine starts a call of one of the sandbox's methods
Call(t) ==
    /\ pc[t] = "idle"
    /\ calls < MaxCalls
    /\ \E o \in Ops :
        /\ op' = [op EXCEPT ![t] = o]
        /\ pc' = [pc EXCEPT ![t] = FirstLabel(o)]
    /\ ret' = [ret EXCEPT ![t] = NoRet]
    /\ atCall' = [atCall EXCEPT ![t] = [draining |-> draining, done |-> done]]
    /\ calls' = calls + 1
    /\ UNCHANGED <<extVars, createUser, procVars, onceVars, resultVars, wgVars, shellVars,
                   ownedVars, watcherVars, trace, bodies>>

\* the primary process exits by itself, successfully or not
ProcessExit ==
    /\ procState = "running"
    /\ procState' = "exited"
    /\ procSuccess' \in BOOLEAN
    /\ UNCHANGED <<extVars, createUser, onceVars, resultVars, wgVars, shellVars, ownedVars,
                   callerVars, watcherVars, trace, bodies>>

\* -------------------------------------------------------------- NewShell
\* NewShell ignoring the error of sessions.Add(1)
NewShellAdd_IgnoreDrain(t) ==
    /\ pc[t] = "n_add"
    /\ mShells = 0
    /\ \E failed \in BOOLEAN : WaitGroupAdd(failed)
    /\ Goto(t, "n_spawn")
    /\ mShells' = t
    /\ UNCHANGED <<extVars, createUser, procVars, onceVars, resultVars, shells, shellState,
                   aborted, ownedVars, watcherVars, trace, bodies>>

\* lines 166-172: lock mShells, sessions.Add(1), reject when draining
NewShellAdd(t) ==
    /\ pc[t] = "n_add"
    /\ mShells = 0
    /\ \E failed \in BOOLEAN :
        /\ WaitGroupAdd(failed)
        /\ IF failed
             THEN /\ Return(t, ErrRet("ErrSandboxTerminated"))
                  /\ UNCHANGED mShells
             ELSE /\ Goto(t, "n_spawn")
                  /\ mShells' = t
    /\ UNCHANGED <<extVars, createUser, procVars, onceVars, resultVars, shells, shellState,
                   aborted, ownedVars, watcherVars, trace, bodies>>

\* NewShell forgetting sessions.Done() when newShell fails
NewShellSpawnFail_NoDone(t) ==
    /\ pc[t] = "n_spawn"
    /\ mShells = t
    /\ mShells' = 0
    /\ Return(t, ErrRet("MalformedPayloadError"))
    /\ UNCHANGED <<extVars, createUser, procVars, onceVars, resultVars, wgVars, shells,
                   shellState, aborted, ownedVars, watcherVars, trace, bodies>>

\* lines 175-182: newShell failed, roll the count back, unlock
NewShellSpawnFail(t) ==
    /\ pc[t] = "n_spawn"
    /\ mShells = t
    /\ WaitGroupDone
    /\ mShells' = 0
    /\ Return(t, ErrRet("MalformedPayloadError"))
    /\ UNCHANGED <<extVars, createUser, procVars, onceVars, resultVars, shells, shellState,
                   aborted, ownedVars, watcherVars, trace, bodies>>

\* lines 175, 184-208: newShell succeeded, register the session, start its
\* completion goroutine, unlock
NewShellSpawnOk(t) ==
    /\ pc[t] = "n_spawn"
    /\ mShells = t
    /\ Unused # {}
    /\ LET S == CHOOSE x \in Unused : \A y \in Unused : x <= y IN
        /\ shellState' = [shellState EXCEPT ![S] = "running"]
        /\ shells' = Append(shells, S)
        /\ Return(t, [rs |-> NoResult, err |-> "nil", sh |-> S])
    /\ mShells' = 0
    /\ UNCHANGED <<extVars, createUser, procVars, onceVars, resultVars, wgVars, aborted,
                   ownedVars, watcherVars, trace, bodies>>

\* lines 188-206: S.Wait() returned; under mShells remove S from s.shells,
\* then sessions.Done()
ShellHook(S) ==
    /\ shellState[S] = "running"
    /\ mShells = 0
    /\ shells' = Remove(shells, S)
    /\ WaitGroupDone
    /\ shellState' = [shellState EXCEPT ![S] = "done"]
    /\ UNCHANGED <<extVars, createUser, procVars, onceVars, resultVars, mShells, aborted,
                   ownedVars, callerVars, watcherVars, trace, bodies>>

\* ------------------------------------------------------------ abortShells
\* abortShells keeping mShells locked while it waits for the sessions
abortShells_HoldLock(t, next) ==
    /\ mShells = 0
    /\ WaitGroupDrain
    /\ aborted' = [x \in ShellIds |-> aborted[x] \/ InShells(x)]
    /\ shells' = <<>>
    /\ Log(<<Step(t, "abortShells")>>)
    /\ Goto(t, next)
    /\ mShells' = t
    /\ UNCHANGED <<extVars, createUser, procVars, onceVars, resultVars, shellState,
                   ownedVars, watcherVars, bodies>>

\* lines 213-225: under mShells drain the registry, abort every listed
\* session, clear the list
abortShells(t, next) ==
    /\ mShells = 0
    /\ WaitGroupDrain
    /\ aborted' = [x \in ShellIds |-> aborted[x] \/ InShells(x)]
    /\ shells' = <<>>
    /\ Log(<<Step(t, "abortShells")>>)
    /\ Goto(t, next)
    /\ UNCHANGED <<extVars, createUser, procVars, onceVars, resultVars, mShells, shellState,
                   ownedVars, watcherVars, bodies>>

\* abortShells returning without s.sessions.Wait()
abortShellsWait_NoWait(t, next) ==
    /\ Goto(t, next)
    /\ UNCHANGED <<extVars, createUser, procVars, onceVars, resultVars, wgVars, shellVars,
                   ownedVars, watcherVars, trace, bodies>>

\* line 228: sessions.Wait()
abortShellsWait(t, next) ==
    /\ WaitGroupWait
    /\ Goto(t, next)
    /\ UNCHANGED <<extVars, createUser, procVars, onceVars, resultVars, wgVars, shellVars,
                   ownedVars, watcherVars, trace, bodies>>


\* ------------------------------------------------------------------ Kill
Body(t, kind) == [by |-> t, kind |-> kind, n |-> Cardinality(bodies) + 1]

\* Kill running its body without consulting the gate
KillDo_NoGate(t) ==
    /\ pc[t] = "k_do"
    /\ \E entered \in BOOLEAN : OnceDoBegin(entered)
    /\ Goto(t, "k_tree")
    /\ bodies' = bodies \cup {Body(t, "Kill")}
    /\ UNCHANGED <<extVars, createUser, procVars, resultVars, wgVars, shellVars, ownedVars,
                   watcherVars, trace>>

\* line 266: s.resolve.Do(...) decides whether this call runs the body
KillDo(t) ==
    /\ pc[t] = "k_do"
    /\ \E entered \in BOOLEAN :
        /\ OnceDoBegin(entered)
        /\ IF entered
             THEN /\ Goto(t, "k_tree")
                  /\ bodies' = bodies \cup {Body(t, "Kill")}
             ELSE /\ Goto(t, "k_ret")
                  /\ UNCHANGED bodies
    /\ UNCHANGED <<extVars, createUser, procVars, resultVars, wgVars, shellVars, ownedVars,
                   watcherVars, trace>>

\* line 270
KillTree(t) ==
    /\ pc[t] = "k_tree"
    /\ KillProcessTree
    /\ Log(<<Step(t, "KillProcessTree")>>)
    /\ Goto(t, "k_shells")
    /\ UNCHANGED <<extVars, createUser, onceVars, resultVars, wgVars, shellVars, ownedVars,
                   watcherVars, bodies>>

\* line 273, first half of abortShells
KillAbortShells(t) ==
    /\ pc[t] = "k_shells"
    /\ abortShells(t, "k_wait")

\* line 273, second half of abortShells
KillShellsWait(t) ==
    /\ pc[t] = "k_wait"
    /\ abortShellsWait(t, "k_owner")

\* Kill killing by owner whether or not the user was created
KillOwner_Always(t) ==
    /\ pc[t] = "k_owner"
    /\ Log(<<Step(t, "KillByOwner")>>)
    /\ Goto(t, "k_result")
    /\ UNCHANGED <<extVars, createUser, procVars, onceVars, resultVars, wgVars, shellVars,
                   ownedVars, watcherVars, bodies>>

\* lines 276-278
KillOwner(t) ==
    /\ pc[t] = "k_owner"
    /\ Log(IF createUser THEN <<Step(t, "KillByOwner")>> ELSE <<>>)
    /\ Goto(t, "k_result")
    /\ UNCHANGED <<extVars, createUser, procVars, onceVars, resultVars, wgVars, shellVars,
                   ownedVars, watcherVars, bodies>>

\* lines 281-289
KillSetResult(t) ==
    /\ pc[t] = "k_result"
    /\ resultSet' = ResultOf(FALSE)
    /\ abortErr' = "ErrSandboxTerminated"
    /\ Log(<<Step(t, "WriteResult")>>)
    /\ Goto(t, "k_end")
    /\ UNCHANGED <<extVars, createUser, procVars, onceVars, resultErr, wgVars, shellVars,
                   ownedVars, watcherVars, bodies>>

\* line 290: the body returns, the gate is resolved
KillDoEnd(t) ==
    /\ pc[t] = "k_end"
    /\ OnceDoEnd
    /\ Goto(t, "k_ret")
    /\ UNCHANGED <<extVars, createUser, procVars, resultVars, wgVars, shellVars, ownedVars,
                   watcherVars, trace, bodies>>

\* Kill returning s.abortErr instead of s.resultErr
KillReturn_AbortErr(t) ==
    /\ pc[t] = "k_ret"
    /\ OnceWait
    /\ Return(t, ErrRet(abortErr))
    /\ UNCHANGED <<extVars, createUser, procVars, onceVars, resultVars, wgVars, shellVars,
                   ownedVars, watcherVars, trace, bodies>>

\* lines 291-292
KillReturn(t) ==
    /\ pc[t] = "k_ret"
    /\ OnceWait
    /\ Return(t, ErrRet(resultErr))
    /\ UNCHANGED <<extVars, createUser, procVars, onceVars, resultVars, wgVars, shellVars,
                   ownedVars, watcherVars, trace, bodies>>

\* ----------------------------------------------------------------- Abort
\* line 296
AbortDo(t) ==
    /\ pc[t] = "a_do"
    /\ \E entered \in BOOLEAN :
        /\ OnceDoBegin(entered)
        /\ IF entered
             THEN /\ Goto(t, "a_tree")
                  /\ bodies' = bodies \cup {Body(t, "Abort")}
             ELSE /\ Goto(t, "a_ret")
                  /\ UNCHANGED bodies
    /\ UNCHANGED <<extVars, createUser, procVars, resultVars, wgVars, shellVars, ownedVars,
                   watcherVars, trace>>

\* line 302
AbortTree(t) ==
    /\ pc[t] = "a_tree"
    /\ KillProcessTree
    /\ Log(<<Step(t, "KillProcessTree")>>)
    /\ Goto(t, "a_shells")
    /\ UNCHANGED <<extVars, createUser, onceVars, resultVars, wgVars, shellVars, ownedVars,
                   watcherVars, bodies>>

\* line 305, first half of abortShells
AbortAbortShells(t) ==
    /\ pc[t] = "a_shells"
    /\ abortShells(t, "a_wait")

\* line 305, second half of abortShells
AbortShellsWait(t) ==
    /\ pc[t] = "a_wait"
    /\ abortShellsWait(t, "a_clean")

\* Abort removing the user but not the working folder
AbortCleanup_KeepFolder(t) ==
    /\ pc[t] = "a_clean"
    /\ userRemoved' = (userRemoved \/ createUser)
    /\ Log(IF createUser
             THEN <<Step(t, "KillByOwner"), Step(t, "UserRemove")>>
             ELSE <<>>)
    /\ Goto(t, "a_result")
    /\ UNCHANGED <<extVars, createUser, procVars, onceVars, resultVars, wgVars, shellVars,
                   folderRemoved, watcherVars, bodies>>

\* lines 307-324: kill by owner and remove the user when one was created,
\* remove the working folder when there is one (there is one iff CreateUser)
AbortCleanup(t) ==
    /\ pc[t] = "a_clean"
    /\ userRemoved' = (userRemoved \/ createUser)
    /\ folderRemoved' = (folderRemoved \/ createUser)
    /\ Log(IF createUser
             THEN <<Step(t, "KillByOwner"), Step(t, "UserRemove"), Step(t, "FolderRemove")>>
             ELSE <<>>)
    /\ Goto(t, "a_result")
    /\ UNCHANGED <<extVars, createUser, procVars, onceVars, resultVars, wgVars, shellVars,
                   watcherVars, bodies>>

\* Abort storing the aborted error in s.abortErr instead of s.resultErr
AbortSetResult_WrongField(t) ==
    /\ pc[t] = "a_result"
    /\ abortErr' = "ErrSandboxAborted"
    /\ Log(<<Step(t, "WriteResult")>>)
    /\ Goto(t, "a_end")
    /\ UNCHANGED <<extVars, createUser, procVars, onceVars, resultSet, resultErr, wgVars,
                   shellVars, ownedVars, watcherVars, bodies>>

\* line 327
AbortSetResult(t) ==
    /\ pc[t] = "a_result"
    /\ resultErr' = "ErrSandboxAborted"
    /\ Log(<<Step(t, "WriteResult")>>)
    /\ Goto(t, "a_end")
    /\ UNCHANGED <<extVars, createUser, procVars, onceVars, resultSet, abortErr, wgVars,
                   shellVars, ownedVars, watcherVars, bodies>>

\* line 328
AbortDoEnd(t) ==
    /\ pc[t] = "a_end"
    /\ OnceDoEnd
    /\ Goto(t, "a_ret")
    /\ UNCHANGED <<extVars, createUser, procVars, resultVars, wgVars, shellVars, ownedVars,
                   watcherVars, trace, bodies>>

\* Abort returning without s.resolve.Wait()
AbortReturn_NoWait(t) ==
    /\ pc[t] = "a_ret"
    /\ Return(t, ErrRet(abortErr))
    /\ UNCHANGED <<extVars, createUser, procVars, onceVars, resultVars, wgVars, shellVars,
                   ownedVars, watcherVars, trace, bodies>>

\* lines 329-330
AbortReturn(t) ==
    /\ pc[t] = "a_ret"
    /\ OnceWait
    /\ Return(t, ErrRet(abortErr))
    /\ UNCHANGED <<extVars, createUser, procVars, onceVars, resultVars, wgVars, shellVars,
                   ownedVars, watcherVars, trace, bodies>>

\* --------------------------------------------------------- WaitForResult
\* WaitForResult returning the fields without waiting for the gate
WaitForResult_NoWait(t) ==
    /\ pc[t] = "w_wait"
    /\ Return(t, [rs |-> resultSet, err |-> resultErr, sh |-> 0])
    /\ UNCHANGED <<extVars, createUser, procVars, onceVars, resultVars, wgVars, shellVars,
                   ownedVars, watcherVars, trace, bodies>>

\* lines 261-262
WaitForResult(t) ==
    /\ pc[t] = "w_wait"
    /\ OnceWait
    /\ Return(t, [rs |-> resultSet, err |-> resultErr, sh |-> 0])
    /\ UNCHANGED <<extVars, createUser, procVars, onceVars, resultVars, wgVars, shellVars,
                   ownedVars, watcherVars, trace, bodies>>

\* ---------------------------------------------------- waitForTermination
\* line 233: success := s.process.Wait()
WatcherProcessWait ==
    /\ wpc = "p_wait"
    /\ procState = "exited"
    /\ wsuccess' = procSuccess
    /\ wpc' = "p_drain"
    /\ UNCHANGED <<extVars, createUser, procVars, onceVars, resultVars, wgVars, shellVars,
                   ownedVars, callerVars, trace, bodies>>

\* the watcher going to the gate without s.sessions.WaitAndDrain()
WatcherWaitAndDrain_Skip ==
    /\ wpc = "p_drain"
    /\ wpc' = "p_do"
    /\ UNCHANGED <<extVars, createUser, procVars, onceVars, resultVars, wgVars, shellVars,
                   ownedVars, callerVars, wsuccess, trace, bodies>>

\* line 237: s.sessions.WaitAndDrain()
WatcherWaitAndDrain ==
    /\ wpc = "p_drain"
    /\ WaitGroupWaitAndDrain
    /\ wpc' = "p_do"
    /\ UNCHANGED <<extVars, createUser, procVars, onceVars, resultVars, shellVars, ownedVars,
                   callerVars, wsuccess, trace, bodies>>

\* the watcher running its body without consulting the gate
WatcherDo_NoGate ==
    /\ wpc = "p_do"
    /\ \E entered \in BOOLEAN : OnceDoBegin(entered)
    /\ wpc' = "p_owner"
    /\ bodies' = bodies \cup {Body(Watcher, "Exit")}
    /\ UNCHANGED <<extVars, createUser, procVars, resultVars, wgVars, shellVars, ownedVars,
                   callerVars, wsuccess, trace>>

\* line 240
WatcherDo ==
    /\ wpc = "p_do"
    /\ \E entered \in BOOLEAN :
        /\ OnceDoBegin(entered)
        /\ IF entered
             THEN /\ wpc' = "p_owner"
                  /\ bodies' = bodies \cup {Body(Watcher, "Exit")}
             ELSE /\ wpc' = "p_done"
                  /\ UNCHANGED bodies
    /\ UNCHANGED <<extVars, createUser, procVars, resultVars, wgVars, shellVars, ownedVars,
                   callerVars, wsuccess, trace>>

\* lines 242-244
WatcherOwner ==
    /\ wpc = "p_owner"
    /\ Log(IF createUser THEN <<Step(Watcher, "KillByOwner")>> ELSE <<>>)
    /\ wpc' = "p_result"
    /\ UNCHANGED <<extVars, createUser, procVars, onceVars, resultVars, wgVars, shellVars,
                   ownedVars, callerVars, wsuccess, bodies>>

\* natural completion storing the result set without setting s.abortErr
WatcherSetResult_NoAbortErr ==
    /\ wpc = "p_result"
    /\ resultSet' = ResultOf(wsuccess)
    /\ Log(<<Step(Watcher, "WriteResult")>>)
    /\ wpc' = "p_end"
    /\ UNCHANGED <<extVars, createUser, procVars, onceVars, resultErr, abortErr, wgVars,
                   shellVars, ownedVars, callerVars, wsuccess, bodies>>

\* lines 247-255
WatcherSetResult ==
    /\ wpc = "p_result"
    /\ resultSet' = ResultOf(wsuccess)
    /\ abortErr' = "ErrSandboxTerminated"
    /\ Log(<<Step(Watcher, "WriteResult")>>)
    /\ wpc' = "p_end"
    /\ UNCHANGED <<extVars, createUser, procVars, onceVars, resultErr, wgVars, shellVars,
                   ownedVars, callerVars, wsuccess, bodies>>

\* line 256
WatcherDoEnd ==
    /\ wpc = "p_end"
    /\ OnceDoEnd
    /\ wpc' = "p_done"
    /\ UNCHANGED <<extVars, createUser, procVars, resultVars, wgVars, shellVars, ownedVars,
                   callerVars, wsuccess, trace, bodies>>

\* ------------------------------------------------------------------ Next
Next ==
    \/ \E t \in Callers : Call(t)
    \/ ProcessExit
    \/ \E t \in Callers : NewShellAdd(t)
    \/ \E t \in Callers : NewShellSpawnFail(t)
    \/ \E t \in Callers : NewShellSpawnOk(t)
    \/ \E S \in ShellIds : ShellHook(S)
    \/ \E t \in Callers : KillDo(t)
    \/ \E t \in Callers : KillTree(t)
    \/ \E t \in Callers : KillAbortShells(t)
    \/ \E t \in Callers : KillShellsWait(t)
    \/ \E t \in Callers : KillOwner(t)
    \/ \E t \in Callers : KillSetResult(t)
    \/ \E t \in Callers : KillDoEnd(t)
    \/ \E t \in Callers : KillReturn(t)
    \/ \E t \in Callers : AbortDo(t)
    \/ \E t \in Callers : AbortTree(t)
    \/ \E t \in Callers : AbortAbortShells(t)
    \/ \E t \in Callers : AbortShellsWait(t)
    \/ \E t \in Callers : AbortCleanup(t)
    \/ \E t \in Callers : AbortSetResult(t)
    \/ \E t \in Callers : AbortDoEnd(t)
    \/ \E t \in Callers : AbortReturn(t)
    \/ \E t \in Callers : WaitForResult(t)
    \/ WatcherProcessWait
    \/ WatcherWaitAndDrain
    \/ WatcherDo
    \/ WatcherOwner
    \/ WatcherSetResult
    \/ WatcherDoEnd

Spec == Init /\ [][Next]_vars

\* every step a goroutine of the sandbox can take by itself: all of Next but
\* the arrival of a new call and the spontaneous exit of the primary process;
\* a session's completion goroutine is among them (a session process ends,
\* by itself or because it was aborted)
Progress ==
    \/ \E t \in Callers : NewShellAdd(t)
    \/ \E t \in Callers : NewShellSpawnFail(t)
    \/ \E t \in Callers : NewShellSpawnOk(t)
    \/ \E S \in ShellIds : ShellHook(S)
    \/ \E t \in Callers : KillDo(t)
    \/ \E t \in Callers : KillTree(t)
    \/ \E t \in Callers : KillAbortShells(t)
    \/ \E t \in Callers : KillShellsWait(t)
    \/ \E t \in Callers : KillOwner(t)
    \/ \E t \in Callers : KillSetResult(t)
    \/ \E t \in Callers : KillDoEnd(t)
    \/ \E t \in Callers : KillReturn(t)
    \/ \E t \in Callers : AbortDo(t)
    \/ \E t \in Callers : AbortTree(t)
    \/ \E t \in Callers : AbortAbortShells(t)
    \/ \E t \in Callers : AbortShellsWait(t)
    \/ \E t \in Callers : AbortCleanup(t)
    \/ \E t \in Callers : AbortSetResult(t)
    \/ \E t \in Callers : AbortDoEnd(t)
    \/ \E t \in Callers : AbortReturn(t)
    \/ \E t \in Callers : WaitForResult(t)
    \/ WatcherProcessWait
    \/ WatcherWaitAndDrain
    \/ WatcherDo
    \/ WatcherOwner
    \/ WatcherSetResult
    \/ WatcherDoEnd

\* the scheduler does not stop while some goroutine can take a step
FairSpec == Spec /\ WF_vars(Progress)


\* ============================================================ newSandbox
\* the fields of the sandbox other than the process and the watcher
sandboxRest == <<started, done, resultSet, resultErr, abortErr, count, draining,
                 mShells, shells, shellState, aborted, userRemoved, folderRemoved,
                 pc, op, ret, atCall, calls, wsuccess, trace, bodies, procSuccess>>

fetchVars == <<fpc, funpacked, ferr>>

\* no sandbox yet: newSandbox has not run, nothing is acquired, there is no
\* process and no goroutine
NoSandbox ==
    /\ bpc = "start"
    /\ bfolder = "nil"
    /\ buser = "nil"
    /\ berr = "nil"
    /\ bret = "none"
    /\ bacq = <<>>
    /\ brel = <<>>
    /\ fpc = "idle"
    /\ funpacked = <<>>
    /\ ferr = "nil"
    /\ procState = "none"
    /\ procSuccess = FALSE
    /\ started = FALSE
    /\ done = FALSE
    /\ resultSet = NoResult
    /\ resultErr = "nil"
    /\ abortErr = "nil"
    /\ count = 0
    /\ draining = FALSE
    /\ mShells = 0
    /\ shells = <<>>
    /\ shellState = [s \in ShellIds |-> "unused"]
    /\ aborted = [s \in ShellIds |-> FALSE]
    /\ userRemoved = FALSE
    /\ folderRemoved = FALSE
    /\ pc = [t \in Callers |-> "idle"]
    /\ op = [t \in Callers |-> "none"]
    /\ ret = [t \in Callers |-> NoRet]
    /\ atCall = [t \in Callers |-> [draining |-> FALSE, done |-> FALSE]]
    /\ calls = 0
    /\ wpc = "none"
    /\ wsuccess = FALSE
    /\ trace = <<>>
    /\ bodies = {}

\* state before newSandbox runs: a configuration and a payload
BuildInit ==
    /\ createUser \in BOOLEAN
    /\ bctx \in Contexts
    /\ NoSandbox
    /\ VMNew

\* a return statement of newSandbox: the value returned, the value of the
\* local err at that moment; the deferred function runs next
BReturn(value, err) ==
    /\ bret' = value
    /\ berr' = err
    /\ bpc' = "defer"

\* lines 53-60: CreateUser is set, allocate the temporary home folder
B_NewFolder ==
    /\ bpc = "start"
    /\ createUser
    /\ \/ /\ bfolder' = "held"
          /\ bacq' = Append(bacq, "folder")
          /\ bpc' = "user"
          /\ UNCHANGED <<bret, berr>>
       \/ /\ BReturn("error", "NewFolder")
          /\ UNCHANGED <<bfolder, bacq>>
    /\ UNCHANGED <<createUser, bctx, buser, brel, fetchVars, procState, wpc, sandboxRest, vmVars>>

\* lines 62-67: create the temporary user account
B_CreateUser ==
    /\ bpc = "user"
    /\ \/ /\ buser' = "created"
          /\ bacq' = Append(bacq, "user")
          /\ bpc' = "context"
          /\ UNCHANGED <<bret, berr>>
       \/ /\ BReturn("error", "CreateUser")
          /\ UNCHANGED <<buser, bacq>>
    /\ UNCHANGED <<createUser, bctx, bfolder, brel, fetchVars, procState, wpc, sandboxRest, vmVars>>

\* lines 68-73: CreateUser is not set, borrow the current user
B_CurrentUser ==
    /\ bpc = "start"
    /\ ~createUser
    /\ \/ /\ buser' = "ambient"
          /\ bpc' = "context"
          /\ UNCHANGED <<bret, berr>>
       \/ /\ BReturn("error", "CurrentUser")
          /\ UNCHANGED buser
    /\ UNCHANGED <<createUser, bctx, bfolder, bacq, brel, fetchVars, procState, wpc,
                   sandboxRest, vmVars>>

\* lines 75-76: fetchContext is called when a context is configured
B_Context ==
    /\ bpc = "context"
    /\ IF bctx = NoContext
         THEN bpc' = "process" /\ UNCHANGED fpc
         ELSE bpc' = "fetch" /\ fpc' = "download"
    /\ UNCHANGED <<createUser, bctx, bfolder, buser, berr, bret, bacq, brel, funpacked,
                   ferr, procState, wpc, sandboxRest, vmVars>>

\* a return statement of fetchContext
FReturn(err) ==
    /\ ferr' = err
    /\ fpc' = "done"

\* lines 128-131: util.Download
F_Download ==
    /\ fpc = "download"
    /\ \/ fpc' = "chmod" /\ UNCHANGED ferr
       \/ FReturn("download")
    /\ UNCHANGED <<createUser, bctx, bpc, bfolder, buser, berr, bret, bacq, brel,
                   funpacked, procState, wpc, sandboxRest, vmVars>>

\* lines 135-137: os.Chmod
F_Chmod ==
    /\ fpc = "chmod"
    /\ \/ fpc' = "chown" /\ UNCHANGED ferr
       \/ FReturn("chmod")
    /\ UNCHANGED <<createUser, bctx, bpc, bfolder, buser, berr, bret, bacq, brel,
                   funpacked, procState, wpc, sandboxRest, vmVars>>

\* lines 139-141: system.ChangeOwner
F_ChangeOwner ==
    /\ fpc = "chown"
    /\ \/ fpc' = "unpack" /\ UNCHANGED ferr
       \/ FReturn("chown")
    /\ UNCHANGED <<createUser, bctx, bpc, bfolder, buser, berr, bret, bacq, brel,
                   funpacked, procState, wpc, sandboxRest, vmVars>>

\* lines 143-153: unpack by extension; the switch has a case for .zip and a
\* case for .gz and no default
F_Unpack ==
    /\ fpc = "unpack"
    /\ \E failed \in BOOLEAN :
        CASE Ext(bctx) = "zip" ->
                /\ UNCHANGED funpacked
                /\ IF failed THEN FReturn("unpack") ELSE fpc' = "untar" /\ UNCHANGED ferr
          [] Ext(bctx) = "gz" ->
                IF failed
                  THEN FReturn("unpack") /\ UNCHANGED funpacked
                  ELSE /\ funpacked' = GunzipName(bctx)
                       /\ fpc' = "untar"
                       /\ UNCHANGED ferr
          [] OTHER ->
                /\ ~failed
                /\ fpc' = "untar"
                /\ UNCHANGED <<funpacked, ferr>>
    /\ UNCHANGED <<createUser, bctx, bpc, bfolder, buser, berr, bret, bacq, brel,
                   procState, wpc, sandboxRest, vmVars>>

\* lines 155-162: untar what gunzip produced when it is a .tar
F_Untar ==
    /\ fpc = "untar"
    /\ IF Ext(funpacked) = "tar"
         THEN \/ FReturn("untar")
              \/ FReturn("nil")
         ELSE FReturn("nil")
    /\ UNCHANGED <<createUser, bctx, bpc, bfolder, buser, berr, bret, bacq, brel,
                   funpacked, procState, wpc, sandboxRest, vmVars>>

\* lines 76-81: err = fetchContext(...); a failure is returned as a
\* malformed-payload error
B_ContextReturn ==
    /\ bpc = "fetch"
    /\ fpc = "done"
    /\ IF ferr # "nil"
         THEN BReturn("MalformedPayloadError", ferr)
         ELSE bpc' = "process" /\ UNCHANGED <<bret, berr>>
    /\ UNCHANGED <<createUser, bctx, bfolder, buser, bacq, brel, fetchVars, procState,
                   wpc, sandboxRest, vmVars>>

\* newSandbox with the error of StartProcess in a variable of its own, which
\* the deferred function does not see
B_StartProcess_Shadow ==
    /\ bpc = "process"
    /\ \/ /\ BReturn("MalformedPayloadError", "nil")
          /\ UNCHANGED <<procState, wpc>>
       \/ /\ BReturn("ok", "nil")
          /\ procState' = "running"
          /\ wpc' = "p_wait"
    /\ UNCHANGED <<createUser, bctx, bfolder, buser, bacq, brel, fetchVars, sandboxRest, vmVars>>

\* lines 83-122: process, err := system.StartProcess(...) assigns the same
\* err; on failure a malformed-payload error is returned, on success the
\* sandbox is built and its watcher goroutine is started
B_StartProcess ==
    /\ bpc = "process"
    /\ \/ /\ BReturn("MalformedPayloadError", "StartProcess")
          /\ UNCHANGED <<procState, wpc>>
       \/ /\ BReturn("ok", "nil")
          /\ procState' = "running"
          /\ wpc' = "p_wait"
    /\ UNCHANGED <<createUser, bctx, bfolder, buser, bacq, brel, fetchVars, sandboxRest, vmVars>>

\* lines 41-51: the deferred function: when err is set, remove the user if it
\* was created, then the working folder if there is one
B_Deferred ==
    /\ bpc = "defer"
    /\ LET removeUser == berr # "nil" /\ createUser /\ buser # "nil"
           removeFolder == berr # "nil" /\ bfolder # "nil"
       IN /\ buser' = IF removeUser THEN "removed" ELSE buser
          /\ bfolder' = IF removeFolder THEN "removed" ELSE bfolder
          /\ brel' = brel \o (IF removeUser THEN <<"user">> ELSE <<>>)
                          \o (IF removeFolder THEN <<"folder">> ELSE <<>>)
    /\ bpc' = "returned"
    /\ UNCHANGED <<createUser, bctx, berr, bret, bacq, fetchVars, procState, wpc,
                   sandboxRest, vmVars>>

BuildNext ==
    \/ B_NewFolder
    \/ B_CreateUser
    \/ B_CurrentUser
    \/ B_Context
    \/ F_Download
    \/ F_Chmod
    \/ F_ChangeOwner
    \/ F_Unpack
    \/ F_Untar
    \/ B_ContextReturn
    \/ B_StartProcess
    \/ B_Deferred

BuildSpec == BuildInit /\ [][BuildNext]_vars


\* ======================================================== VirtualMachine
\* everything the virtual machine does not touch
nativeVars == <<createUser, procState, wpc, sandboxRest, buildVars>>

vmRes  == <<network, image, netReleases, imgReleases, socketFolder, dirExists>>
vmProc == <<qemu, werr>>
vmMon  == <<mpc, merr, vncReady, qmpReady, readyClosed>>
vmExit == <<xpc, xwerr>>
vmCall == <<vpc, vop, vret, vAtCall, vcalls>>
vmHist == <<vadmit, vrecv>>

\* state before any method of the virtual machine is called
VMInit ==
    /\ createUser = FALSE
    /\ bctx = NoContext
    /\ NoSandbox
    /\ VMNew

DoneClosed == doneCloses > 0

\* a caller begins Start, Kill or VNCSocket; Kill needs vm.qemu.Process or a
\* closed Done, that is a Start which got past launching or gave up
VCall(t) ==
    /\ vpc[t] = "idle"
    /\ vcalls < MaxVMCalls
    /\ \E o \in VMOps :
        /\ o = "Kill" => (qemu # "notstarted" \/ DoneClosed)
        /\ vop' = [vop EXCEPT ![t] = o]
        /\ vpc' = [vpc EXCEPT ![t] =
                     CASE o = "Start" -> "s_lock"
                       [] o = "Kill" -> "k_kill"
                       [] OTHER -> "v_sock"]
    /\ vAtCall' = [vAtCall EXCEPT ![t] = DoneClosed]
    /\ vret' = [vret EXCEPT ![t] = NoVMRet]
    /\ vcalls' = vcalls + 1
    /\ UNCHANGED <<nativeVars, vstarted, vmLock, vmRes, vmProc, doneCloses, vError, serr,
                   vmMon, vmExit, vmHist>>

VReturn(t) == vpc' = [vpc EXCEPT ![t] = "idle"]
VGoto(t, l) == vpc' = [vpc EXCEPT ![t] = l]

\* ------------------------------------------------------------------ Start
S_Lock_NoCheck(t) ==
    /\ vpc[t] = "s_lock"
    /\ ~vmLock
    /\ vstarted' = TRUE
    /\ vadmit' = vadmit + 1
    /\ VGoto(t, "s_watch")
    /\ UNCHANGED <<nativeVars, vmLock, vmRes, vmProc, doneCloses, vError, serr, vmMon,
                   vmExit, vop, vret, vAtCall, vcalls, vrecv>>

\* lines 243-249: the started check under vm.m; a second Start panics
S_Lock(t) ==
    /\ vpc[t] = "s_lock"
    /\ ~vmLock
    /\ IF vstarted
         THEN /\ VGoto(t, "panicked")
              /\ UNCHANGED <<vstarted, vadmit>>
         ELSE /\ vstarted' = TRUE
              /\ vadmit' = vadmit + 1
              /\ VGoto(t, "s_watch")
    /\ UNCHANGED <<nativeVars, vmLock, vmRes, vmProc, doneCloses, vError, serr, vmMon,
                   vmExit, vop, vret, vAtCall, vcalls, vrecv>>

\* lines 257-263 with waitForSockets 370-385: the watch is set up and the
\* monitor goroutine launched, or setting up fails, Error is set, Done closed
S_Watch(t) ==
    /\ vpc[t] = "s_watch"
    /\ \E ok \in BOOLEAN :
        IF ok
          THEN /\ mpc' = "loop"
               /\ VGoto(t, "s_spawn")
               /\ UNCHANGED <<vError, doneCloses>>
          ELSE /\ vError' = "watch-setup"
               /\ doneCloses' = doneCloses + 1
               /\ VReturn(t)
               /\ UNCHANGED mpc
    /\ UNCHANGED <<nativeVars, vstarted, vmLock, vmRes, vmProc, serr, merr, vncReady,
                   qmpReady, readyClosed, vmExit, vop, vret, vAtCall, vcalls, vmHist>>

S_Spawn_NoReturn(t) ==
    /\ vpc[t] = "s_spawn"
    /\ \E ok \in BOOLEAN :
        IF ok
          THEN /\ vError' = "nil"
               /\ qemu' = "running"
               /\ werr' = werr
               /\ xpc' = "wait"
               /\ VGoto(t, "s_select")
               /\ UNCHANGED doneCloses
          ELSE /\ vError' = "spawn"
               /\ doneCloses' = doneCloses + 1
               /\ qemu' = "exited"
               /\ werr' = "exit"
               /\ xpc' = "wait"
               /\ VGoto(t, "s_select")
    /\ UNCHANGED <<nativeVars, vstarted, vmLock, vmRes, serr, vmMon, xwerr,
                   vop, vret, vAtCall, vcalls, vmHist>>

\* lines 266-327: vm.Error = vm.qemu.Start(); on failure Done is closed and
\* Start returns, otherwise the exit watcher goroutine is launched
S_Spawn(t) ==
    /\ vpc[t] = "s_spawn"
    /\ \E ok \in BOOLEAN :
        IF ok
          THEN /\ vError' = "nil"
               /\ qemu' = "running"
               /\ xpc' = "wait"
               /\ VGoto(t, "s_select")
               /\ UNCHANGED doneCloses
          ELSE /\ vError' = "spawn"
               /\ doneCloses' = doneCloses + 1
               /\ VReturn(t)
               /\ UNCHANGED <<qemu, xpc>>
    /\ UNCHANGED <<nativeVars, vstarted, vmLock, vmRes, werr, serr, vmMon, xwerr,
                   vop, vret, vAtCall, vcalls, vmHist>>

\* lines 330-332, 341: the readiness channel was closed or Done was closed
S_SelectReady(t) ==
    /\ vpc[t] = "s_select"
    /\ readyClosed
    /\ VReturn(t)
    /\ UNCHANGED <<nativeVars, vstarted, vmLock, vmRes, vmProc, doneCloses, vError, serr,
                   vmMon, vmExit, vop, vret, vAtCall, vcalls, vmHist>>

S_SelectDone(t) ==
    /\ vpc[t] = "s_select"
    /\ DoneClosed
    /\ VReturn(t)
    /\ UNCHANGED <<nativeVars, vstarted, vmLock, vmRes, vmProc, doneCloses, vError, serr,
                   vmMon, vmExit, vop, vret, vAtCall, vcalls, vmHist>>

\* line 331 with 404-410: the monitor's send on the unbuffered channel meets
\* Start's receive; the monitor then closes its watcher and ends
S_SelectErr(t) ==
    /\ vpc[t] = "s_select"
    /\ mpc = "sending"
    /\ serr' = merr
    /\ mpc' = "stopped"
    /\ VGoto(t, "s_err")
    /\ UNCHANGED <<nativeVars, vstarted, vmLock, vmRes, vmProc, doneCloses, vError, merr,
                   vncReady, qmpReady, readyClosed, vmExit, vop, vret, vAtCall, vcalls,
                   vmHist>>

\* lines 332-338: under vm.m, if vm.Error != nil { vm.Error = err }
S_Err(t) ==
    /\ vpc[t] = "s_err"
    /\ ~vmLock
    /\ vError' = IF vError # "nil" THEN serr ELSE vError
    /\ vrecv' = [err |-> serr, prior |-> vError]
    /\ VGoto(t, "s_kill")
    /\ UNCHANGED <<nativeVars, vstarted, vmLock, vmRes, vmProc, doneCloses, serr, vmMon,
                   vmExit, vop, vret, vAtCall, vcalls, vadmit>>

\* lines 346-353: nothing once Done is closed, otherwise the process is killed
KillQemu ==
    IF ~DoneClosed /\ qemu = "running"
      THEN /\ qemu' = "exited"
           /\ werr' = "killed"
      ELSE UNCHANGED <<qemu, werr>>

S_Kill_Skip(t) ==
    /\ vpc[t] = "s_kill"
    /\ VReturn(t)
    /\ UNCHANGED <<nativeVars, vstarted, vmLock, vmRes, vmProc, doneCloses, vError, serr,
                   vmMon, vmExit, vop, vret, vAtCall, vcalls, vmHist>>

\* line 339: vm.Kill()
S_Kill(t) ==
    /\ vpc[t] = "s_kill"
    /\ KillQemu
    /\ VReturn(t)
    /\ UNCHANGED <<nativeVars, vstarted, vmLock, vmRes, doneCloses, vError, serr, vmMon,
                   vmExit, vop, vret, vAtCall, vcalls, vmHist>>

\* ------------------------------------------------------- Kill, VNCSocket
\* Kill releasing the network and the image itself after killing the process
K_Kill_Teardown(t) ==
    /\ vpc[t] = "k_kill"
    /\ KillQemu
    /\ network' = "nil"
    /\ image' = "nil"
    /\ netReleases' = netReleases + 1
    /\ imgReleases' = imgReleases + 1
    /\ VReturn(t)
    /\ UNCHANGED <<nativeVars, vstarted, vmLock, socketFolder, dirExists, doneCloses,
                   vError, serr, vmMon, vmExit, vop, vret, vAtCall, vcalls, vmHist>>


K_Kill(t) ==
    /\ vpc[t] = "k_kill"
    /\ KillQemu
    /\ VReturn(t)
    /\ UNCHANGED <<nativeVars, vstarted, vmLock, vmRes, doneCloses, vError, serr, vmMon,
                   vmExit, vop, vret, vAtCall, vcalls, vmHist>>

\* lines 356-366: under vm.m, "" when socketFolder is "", else the vnc.sock path
V_Socket(t) ==
    /\ vpc[t] = "v_sock"
    /\ ~vmLock
    /\ vret' = [vret EXCEPT ![t] =
                  [val |-> IF socketFolder = "" THEN "" ELSE "dir/vnc.sock",
                   done |-> DoneClosed,
                   dir |-> dirExists]]
    /\ VReturn(t)
    /\ UNCHANGED <<nativeVars, vstarted, vmLock, vmRes, vmProc, doneCloses, vError, serr,
                   vmMon, vmExit, vop, vAtCall, vcalls, vmHist>>

\* ----------------------------------------------------- the QEMU process
\* the process ends by itself, cleanly or with an error
Q_Exit ==
    /\ qemu = "running"
    /\ qemu' = "exited"
    /\ werr' \in {"nil", "exit"}
    /\ UNCHANGED <<nativeVars, vstarted, vmLock, vmRes, doneCloses, vError, serr, vmMon,
                   vmExit, vmCall, vmHist>>

\* -------------------------------------------------- waitForSockets monitor
MonitorWaiting == mpc = "loop" /\ ~(vncReady /\ qmpReady)

\* lines 390-398: a Create event for vnc.sock / qmp.sock; QEMU creates them
M_EventVnc ==
    /\ MonitorWaiting
    /\ qemu = "running"
    /\ dirExists
    /\ ~vncReady
    /\ vncReady' = TRUE
    /\ UNCHANGED <<nativeVars, vstarted, vmLock, vmRes, vmProc, doneCloses, vError, serr,
                   mpc, merr, qmpReady, readyClosed, vmExit, vmCall, vmHist>>

M_EventQmp ==
    /\ MonitorWaiting
    /\ qemu = "running"
    /\ dirExists
    /\ ~qmpReady
    /\ qmpReady' = TRUE
    /\ UNCHANGED <<nativeVars, vstarted, vmLock, vmRes, vmProc, doneCloses, vError, serr,
                   mpc, merr, vncReady, readyClosed, vmExit, vmCall, vmHist>>

\* the monitor signalling success as soon as one of the two sockets was seen
M_Ready_OneSocket ==
    /\ mpc = "loop"
    /\ vncReady \/ qmpReady
    /\ readyClosed' = TRUE
    /\ mpc' = "stopped"
    /\ UNCHANGED <<nativeVars, vstarted, vmLock, vmRes, vmProc, doneCloses, vError, serr,
                   merr, vncReady, qmpReady, vmExit, vmCall, vmHist>>

\* lines 388, 413-414: both sockets seen; the watcher and the channel are closed
M_Ready ==
    /\ mpc = "loop"
    /\ vncReady /\ qmpReady
    /\ readyClosed' = TRUE
    /\ mpc' = "stopped"
    /\ UNCHANGED <<nativeVars, vstarted, vmLock, vmRes, vmProc, doneCloses, vError, serr,
                   merr, vncReady, qmpReady, vmExit, vmCall, vmHist>>

\* lines 399-402: Done was closed; the monitor ends without sending
M_Done ==
    /\ MonitorWaiting
    /\ DoneClosed
    /\ mpc' = "stopped"
    /\ UNCHANGED <<nativeVars, vstarted, vmLock, vmRes, vmProc, doneCloses, vError, serr,
                   merr, vncReady, qmpReady, readyClosed, vmExit, vmCall, vmHist>>

\* lines 403-404: 90 s passed in this wait; the monitor sends the timeout error
M_Timeout ==
    /\ MonitorWaiting
    /\ mpc' = "sending"
    /\ merr' = "timeout"
    /\ UNCHANGED <<nativeVars, vstarted, vmLock, vmRes, vmProc, doneCloses, vError, serr,
                   vncReady, qmpReady, readyClosed, vmExit, vmCall, vmHist>>

\* lines 407-408: the file watcher reports an error; the monitor sends it
M_Error ==
    /\ MonitorWaiting
    /\ mpc' = "sending"
    /\ merr' = "watcher-error"
    /\ UNCHANGED <<nativeVars, vstarted, vmLock, vmRes, vmProc, doneCloses, vError, serr,
                   vncReady, qmpReady, readyClosed, vmExit, vmCall, vmHist>>

\* ------------------------------------------------------------ exit watcher
\* line 297: werr := vm.qemu.Wait()
X_Wait ==
    /\ xpc = "wait"
    /\ qemu = "exited"
    /\ xwerr' = werr
    /\ xpc' = "lock"
    /\ UNCHANGED <<nativeVars, vstarted, vmLock, vmRes, vmProc, doneCloses, vError, serr,
                   vmMon, vmCall, vmHist>>

\* lines 300-306: vm.m taken until the goroutine ends; Error set if still nil
X_SetError ==
    /\ xpc = "lock"
    /\ ~vmLock
    /\ vmLock' = TRUE
    /\ vError' = IF vError = "nil" THEN xwerr ELSE vError
    /\ xpc' = "release"
    /\ UNCHANGED <<nativeVars, vstarted, vmRes, vmProc, doneCloses, serr, vmMon, xwerr,
                   vmCall, vmHist>>

\* lines 309-315: pipes closed, network and image released
X_Release ==
    /\ xpc = "release"
    /\ network' = "nil"
    /\ image' = "nil"
    /\ netReleases' = netReleases + 1
    /\ imgReleases' = imgReleases + 1
    /\ xpc' = "remove"
    /\ UNCHANGED <<nativeVars, vstarted, vmLock, socketFolder, dirExists, vmProc,
                   doneCloses, vError, serr, vmMon, xwerr, vmCall, vmHist>>

\* lines 318-319: the socket folder is removed and forgotten
X_Remove ==
    /\ xpc = "remove"
    /\ dirExists' = FALSE
    /\ socketFolder' = ""
    /\ xpc' = "close"
    /\ UNCHANGED <<nativeVars, vstarted, vmLock, network, image, netReleases,
                   imgReleases, vmProc, doneCloses, vError, serr, vmMon, xwerr, vmCall,
                   vmHist>>

\* lines 301, 326: Done is closed, then the deferred unlock runs
X_Close ==
    /\ xpc = "close"
    /\ doneCloses' = doneCloses + 1
    /\ vmLock' = FALSE
    /\ xpc' = "done"
    /\ UNCHANGED <<nativeVars, vstarted, vmRes, vmProc, vError, serr, vmMon, xwerr,
                   vmCall, vmHist>>

\* --------------------------------------------------------------- VMNext
VMNext ==
    \/ \E t \in VMCallers : VCall(t)
    \/ \E t \in VMCallers : S_Lock(t)
    \/ \E t \in VMCallers : S_Watch(t)
    \/ \E t \in VMCallers : S_Spawn(t)
    \/ \E t \in VMCallers : S_SelectReady(t)
    \/ \E t \in VMCallers : S_SelectDone(t)
    \/ \E t \in VMCallers : S_SelectErr(t)
    \/ \E t \in VMCallers : S_Err(t)
    \/ \E t \in VMCallers : S_Kill(t)
    \/ \E t \in VMCallers : K_Kill(t)
    \/ \E t \in VMCallers : V_Socket(t)
    \/ Q_Exit
    \/ M_EventVnc
    \/ M_EventQmp
    \/ M_Ready
    \/ M_Done
    \/ M_Timeout
    \/ M_Error
    \/ X_Wait
    \/ X_SetError
    \/ X_Release
    \/ X_Remove
    \/ X_Close

VMSpec == VMInit /\ [][VMNext]_vars

\* the steps the program takes by itself: method bodies and goroutines run on;
\* calls, the end of the QEMU process, socket creation, timeouts and watcher
\* errors come from outside
VMProgress ==
    \/ \E t \in VMCallers : S_Lock(t)
    \/ \E t \in VMCallers : S_Watch(t)
    \/ \E t \in VMCallers : S_Spawn(t)
    \/ \E t \in VMCallers : S_SelectReady(t)
    \/ \E t \in VMCallers : S_SelectDone(t)
    \/ \E t \in VMCallers : S_SelectErr(t)
    \/ \E t \in VMCallers : S_Err(t)
    \/ \E t \in VMCallers : S_Kill(t)
    \/ \E t \in VMCallers : K_Kill(t)
    \/ \E t \in VMCallers : V_Socket(t)
    \/ M_Ready
    \/ M_Done
    \/ X_Wait
    \/ X_SetError
    \/ X_Release
    \/ X_Remove
    \/ X_Close

VMFairSpec == VMSpec /\ WF_vars(VMProgress)

\* ============================================================ properties
Returned(t, o) == pc[t] = "idle" /\ op[t] = o

WinnerKinds == {b.kind : b \in bodies}

BodyLabels == {"k_tree", "k_shells", "k_wait", "k_owner", "k_result", "k_end",
               "a_tree", "a_shells", "a_wait", "a_clean", "a_result", "a_end"}

BodyRunning ==
    \/ \E t \in Callers : pc[t] \in BodyLabels
    \/ wpc \in {"p_owner", "p_result", "p_end"}

StepCount(s) == Cardinality({i \in 1..Len(trace) : trace[i].step = s})

TeardownSteps == {"KillProcessTree", "abortShells", "KillByOwner", "UserRemove",
                  "FolderRemove", "WriteResult"}

\* C1: under every interleaving of Kill, Abort and the natural-exit watcher at
\* most one resolve.Do body is ever entered, exactly one once the gate has been
\* taken, and every teardown step (process-tree kill, session abort,
\* kill-by-owner, user/folder removal, result write) was executed by that one
\* body and executed once.
C1_ExactlyOneBody ==
    /\ Cardinality(bodies) <= 1
    /\ started <=> Cardinality(bodies) = 1
    /\ \A i \in 1..Len(trace) :
         \E b \in bodies : b.by = trace[i].by /\ b.kind = trace[i].op
    /\ \A s \in TeardownSteps : StepCount(s) <= 1

\* a Kill, an Abort and the watcher have all gone through the gate
C1_Witness ==
    /\ done
    /\ wpc = "p_done"
    /\ \E t, u \in Callers : Returned(t, "Kill") /\ Returned(u, "Abort")
    /\ Len(trace) >= 3

\* C2: a WaitForResult call that has returned did so with the gate resolved
\* and no body executing, and the pair it returned is the stored pair.
C2_WaitForResultAfterGate ==
    \A t \in Callers :
        Returned(t, "WaitForResult") =>
            /\ done
            /\ ~BodyRunning
            /\ ret[t].rs = resultSet
            /\ ret[t].err = resultErr

\* a WaitForResult call issued before resolution has returned the result
C2_Witness ==
    \E t \in Callers :
        /\ Returned(t, "WaitForResult")
        /\ ~atCall[t].done
        /\ ret[t].rs.set

\* C3: once the gate is resolved no step writes resultSet, resultErr or
\* abortErr, and all WaitForResult calls that have returned returned the
\* same pair.
C3_ResolvedFieldsFrozen ==
    /\ [](\A t, u \in Callers :
            Returned(t, "WaitForResult") /\ Returned(u, "WaitForResult")
                => ret[t] = ret[u])
    /\ [][done => UNCHANGED resultVars]_vars

\* two WaitForResult calls have returned after the watcher, which lost or won
\* the gate, has finished
C3_Witness ==
    /\ wpc = "p_done"
    /\ \E t, u \in Callers :
        /\ t # u
        /\ Returned(t, "WaitForResult")
        /\ Returned(u, "WaitForResult")
        /\ atCall[u].done

\* C4: a Kill call begun after the sandbox was resolved by Kill or by natural
\* completion changes nothing (no teardown step, no field write, no session
\* touched) and returns nil; after natural completion the stored result keeps
\* the process's own success flag, which is what WaitForResult returns.
C4_KillLate(t) ==
    op[t] = "Kill" /\ atCall[t].done /\ WinnerKinds \subseteq {"Kill", "Exit"}

C4_KillIdempotent ==
    /\ [](\A t \in Callers :
            Returned(t, "Kill") /\ C4_KillLate(t) =>
                /\ ret[t].err = "nil"
                /\ resultSet.set
                /\ (WinnerKinds = {"Exit"} => resultSet = ResultOf(procSuccess))
                /\ \A u \in Callers :
                     Returned(u, "WaitForResult") => ret[u].rs = resultSet)
    /\ [][\A t \in Callers :
            C4_KillLate(t) /\ pc[t] # "idle" /\ pc'[t] # pc[t] =>
                UNCHANGED <<trace, bodies, resultVars, procVars, wgVars, shellVars,
                            ownedVars>>]_vars

\* natural completion with success, then WaitForResult, then a late Kill
C4_Witness ==
    \E t, u \in Callers :
        /\ Returned(t, "Kill")
        /\ C4_KillLate(t)
        /\ WinnerKinds = {"Exit"}
        /\ Returned(u, "WaitForResult")
        /\ ret[u].rs = ResultOf(TRUE)

\* C5: in every resolved state exactly one of result set and error is present;
\* an Abort win stores (no result set, aborted error), a Kill win stores
\* (result set with success=false, no error), and that is what WaitForResult
\* returns.
C5_Outcome(pair) ==
    /\ pair.rs.set # (pair.err # "nil")
    /\ WinnerKinds = {"Abort"} => pair.rs = NoResult /\ pair.err = "ErrSandboxAborted"
    /\ WinnerKinds = {"Kill"} => pair.rs = ResultOf(FALSE) /\ pair.err = "nil"

C5_OutcomeByWinner ==
    /\ done => C5_Outcome([rs |-> resultSet, err |-> resultErr])
    /\ \A t \in Callers : Returned(t, "WaitForResult") => C5_Outcome(ret[t])

\* WaitForResult has returned the aborted outcome
C5_Witness ==
    \E t \in Callers :
        /\ Returned(t, "WaitForResult")
        /\ WinnerKinds = {"Abort"}
        /\ ret[t].err = "ErrSandboxAborted"


\* C6: a Kill or Abort call that has returned, whether it ran the body or not,
\* returned with the gate resolved and with no body still executing.
C6_KillAbortSynchronous ==
    \A t \in Callers :
        Returned(t, "Kill") \/ Returned(t, "Abort") => done /\ ~BodyRunning

\* a call that started before resolution and did not run the body has returned
C6_Witness ==
    \E t \in Callers :
        /\ Returned(t, "Kill") \/ Returned(t, "Abort")
        /\ ~atCall[t].done
        /\ \A b \in bodies : b.by # t
        /\ WinnerKinds \cap {"Kill", "Abort"} # {}

Running == {S \in ShellIds : shellState[S] = "running"}

AbortShellsRan == StepCount("abortShells") > 0

\* C7: once abortShells has drained the registry, every session that is
\* registered and not yet completed has been sent Abort (none was spawned
\* after the drain, none was skipped), and when Kill or Abort won the gate the
\* session count is zero from the end of abortShells on, in particular
\* whenever a Kill or Abort call has returned.
C7_SessionsAborted ==
    /\ AbortShellsRan => \A S \in Running : aborted[S]
    /\ \A t \in Callers :
         pc[t] \in {"k_owner", "k_result", "k_end", "a_clean", "a_result", "a_end"}
            => count = 0 /\ Running = {}
    /\ \A t \in Callers :
         /\ Returned(t, "Kill") \/ Returned(t, "Abort")
         /\ WinnerKinds \cap {"Kill", "Abort"} # {}
         => count = 0 /\ Running = {} /\ shells = <<>>

\* Abort won with two sessions attached, both were aborted, Abort has returned
C7_Witness ==
    \E t \in Callers :
        /\ Returned(t, "Abort")
        /\ WinnerKinds = {"Abort"}
        /\ Cardinality({S \in ShellIds : aborted[S]}) >= 2

\* C8: a NewShell call begun when the registry is already draining never
\* reaches the spawn, changes neither the session count, the shells list nor
\* any session, and returns the sandbox-terminated error.
C8_Late(t) == op[t] = "NewShell" /\ atCall[t].draining

C8_NewShellAfterDrain ==
    /\ [](\A t \in Callers :
            C8_Late(t) =>
                /\ pc[t] \in {"n_add", "idle"}
                /\ pc[t] = "idle" =>
                     ret[t].err = "ErrSandboxTerminated" /\ ret[t].sh = 0)
    /\ [][\A t \in Callers :
            C8_Late(t) /\ pc[t] # "idle" /\ pc'[t] # pc[t] =>
                UNCHANGED <<count, shells, shellState, aborted>>]_vars

\* a NewShell call begun after the drain has been rejected
C8_Witness ==
    \E t \in Callers :
        /\ Returned(t, "NewShell")
        /\ C8_Late(t)
        /\ ret[t].err = "ErrSandboxTerminated"

Spawning == {t \in Callers : pc[t] = "n_spawn"}

\* C9 as stated: the session count always equals the number of spawned
\* sessions whose completion hook has not run, the shells list never holds
\* more entries than the count, the count is never negative.
C9_CountExact ==
    /\ count = Cardinality(Running)
    /\ Len(shells) <= count
    /\ count >= 0

\* C9 (amended): the session count equals the number of spawned sessions whose
\* completion hook has not run plus the NewShell calls that are between
\* sessions.Add and the outcome of their spawn (at most one, it holds
\* mShells); so a failed spawn leaves no trace in the count, the count is zero
\* when every session has completed, the shells list never holds more entries
\* than the count and the count is never negative.
C9_CountInFlight ==
    /\ count = Cardinality(Running) + Cardinality(Spawning)
    /\ Cardinality(Spawning) <= 1
    /\ Len(shells) <= Cardinality(Running)
    /\ \A i \in 1..Len(shells) : shells[i] \in Running
    /\ count >= 0

\* two sessions have completed, one spawn has failed, the count is back at zero
C9_Witness ==
    /\ count = 0
    /\ Cardinality({S \in ShellIds : shellState[S] = "done"}) >= 2
    /\ \E t \in Callers : Returned(t, "NewShell") /\ ret[t].err = "MalformedPayloadError"

Before(a, b) ==
    \E i, j \in 1..Len(trace) : i < j /\ trace[i].step = a /\ trace[j].step = b

\* C10 as stated: after any Abort call on a sandbox that owns a working folder
\* returns, the folder and the user have been removed, whichever trigger
\* resolved the sandbox.
C10_AbortAlwaysReleases ==
    \A t \in Callers :
        Returned(t, "Abort") /\ createUser => folderRemoved /\ userRemoved

\* C10 (amended): after an Abort call returns on a sandbox that owns a working
\* folder, the folder and the user have been removed, the user after its
\* processes were killed, exactly when an Abort won the gate; when Kill or
\* natural completion won, Abort removes neither and returns the terminated
\* error.
C10_AbortReleasesIfWinner ==
    \A t \in Callers :
        Returned(t, "Abort") /\ createUser =>
            /\ WinnerKinds = {"Abort"} =>
                 /\ folderRemoved /\ userRemoved
                 /\ Before("KillByOwner", "UserRemove")
                 /\ Before("UserRemove", "FolderRemove")
            /\ WinnerKinds # {"Abort"} =>
                 /\ ~folderRemoved /\ ~userRemoved
                 /\ ret[t].err = "ErrSandboxTerminated"

\* an Abort that won the gate on a sandbox with a created user has returned
C10_Witness ==
    \E t \in Callers :
        /\ Returned(t, "Abort")
        /\ createUser
        /\ WinnerKinds = {"Abort"}
        /\ folderRemoved

WatcherPastDrain == wpc \in {"p_do", "p_owner", "p_result", "p_end", "p_done"}

NoSpawn == \A S \in ShellIds : shellState[S] = "unused" => shellState'[S] = "unused"

\* what C19 says of the result when the watcher won the gate: it carries the
\* process's own success flag and is stored with no session counted and the
\* registry draining
C19_ResultOfExit ==
    WinnerKinds = {"Exit"} /\ resultSet.set =>
        /\ resultSet = ResultOf(procSuccess)
        /\ count = 0
        /\ draining

\* C19 as stated: the registry stops accepting as soon as the primary process
\* has exited, so no NewShell succeeds after the exit; the watcher then waits
\* for the in-flight sessions and fires the gate as in C19_ResultOfExit.
C19_NoShellAfterExit ==
    /\ [](C19_ResultOfExit)
    /\ [][procState = "exited" => NoSpawn]_vars

\* C19 (amended): after the primary process exits, the watcher's WaitAndDrain
\* returns only when no session is counted and leaves the registry draining,
\* and only then is the gate fired: from the return of WaitAndDrain on the
\* process is exited, the count is zero, the registry is draining and no
\* NewShell succeeds (NewShell can still succeed after the exit of the process
\* until then); if the watcher wins the gate the result carries the process's
\* own success flag and is stored with count zero and the registry draining.
C19_WatcherOrder ==
    /\ [](/\ wpc # "p_wait" => procState = "exited"
          /\ WatcherPastDrain => count = 0 /\ draining /\ Running = {}
          /\ C19_ResultOfExit)
    /\ [][WatcherPastDrain => NoSpawn]_vars

\* the watcher won after a session that was spawned and completed, and the
\* successful result is visible
C19_Witness ==
    /\ WinnerKinds = {"Exit"}
    /\ done
    /\ resultSet = ResultOf(TRUE)
    /\ \E S \in ShellIds : shellState[S] = "done" /\ ~aborted[S]

\* a configured context whose file name has neither of the archive extensions
\* fetchContext unpacks
Unrecognized(f) == f # NoContext /\ Ext(f) \notin {"zip", "gz"}

\* C12: constructing a sandbox whose context download has an unrecognized
\* archive extension starts no primary process and, once fetchContext was
\* reached, newSandbox returns a malformed-payload error with the allocated
\* user and working folder removed.
C12_UnrecognizedContextFails ==
    Unrecognized(bctx) =>
        /\ procState = "none"
        /\ bpc = "returned" /\ fpc = "done" =>
             /\ bret = "MalformedPayloadError"
             /\ buser # "created"
             /\ bfolder # "held"

Reverse(seq) == [i \in 1..Len(seq) |-> seq[Len(seq) + 1 - i]]

\* C20: when newSandbox has returned an error (folder allocation, user
\* creation, current user, context fetch or process start failed) it has
\* released exactly what it had acquired, in reverse order of acquisition
\* (the created user before its working folder), and started no process;
\* nothing is released before the return; a borrowed user is never removed;
\* when it has returned a sandbox nothing was released and the process runs.
C20_UnwindOnFailure ==
    /\ bpc # "returned" => brel = <<>>
    /\ ~createUser => brel = <<>> /\ buser \in {"nil", "ambient"} /\ bfolder = "nil"
    /\ bpc = "returned" /\ bret # "ok" =>
         /\ brel = Reverse(bacq)
         /\ buser # "created"
         /\ bfolder # "held"
         /\ procState = "none"
         /\ wpc = "none"
    /\ bpc = "returned" /\ bret = "ok" =>
         /\ brel = <<>>
         /\ buser = (IF createUser THEN "created" ELSE "ambient")
         /\ bfolder = (IF createUser THEN "held" ELSE "nil")
         /\ procState = "running"

\* the process failed to start on a sandbox with a created user: the user,
\* then the folder, were removed
C20_Witness ==
    /\ bpc = "returned"
    /\ bret = "MalformedPayloadError"
    /\ berr = "StartProcess"
    /\ bacq = <<"folder", "user">>
    /\ brel = <<"user", "folder">>

\* ------------------------------------------------ VirtualMachine properties
StartFailed == vError \in {"watch-setup", "spawn"}

\* C13: Done is closed at most once over an execution of Start, whichever of
\* the watch-setup failure path, the spawn failure path and the exit watcher
\* closes it, and once the process failed to spawn or has exited Done is
\* eventually closed.
C13_DoneClosedOnce ==
    /\ [](doneCloses <= 1)
    /\ []<>((qemu = "exited" \/ StartFailed) => DoneClosed)

\* the exit watcher closed Done after a Kill, with the monitor stopped by Done
C13_Witness ==
    /\ doneCloses = 1
    /\ xpc = "done"
    /\ werr = "killed"
    /\ mpc = "stopped"
    /\ ~readyClosed

TornDown == network = "nil" /\ image = "nil" /\ ~dirExists

\* C14: in every state where Done is closed the network attachment and the
\* image have been released and the private socket directory is removed.
C14_DoneClosesLast == DoneClosed => TornDown

VNCReturned(t) == vop[t] = "VNCSocket" /\ vpc[t] = "idle" /\ vret[t] # NoVMRet

\* C15: a VNCSocket call that begins after Done is closed returns the empty
\* string, and one that returns while the VM is started and Done is not closed
\* returns the socket path, with the private directory still there.
C15_VNCSocketAfterDone ==
    \A t \in VMCallers : VNCReturned(t) =>
        /\ vAtCall[t] => vret[t].val = ""
        /\ (vstarted /\ ~vret[t].done) => (vret[t].val = "dir/vnc.sock" /\ vret[t].dir)

\* the step of caller t out of label l
StepFrom(t, l) == vpc[t] = l /\ vpc'[t] # l

\* C16: the started flag goes from false to true once and never back, at most
\* one Start call passes the check, and a Start that finds the flag set panics
\* without spawning a process, arming a goroutine or touching Done or Error.
C16_StartOnce ==
    /\ [](vadmit <= 1 /\ (vadmit = 1 <=> vstarted))
    /\ [][vstarted => vstarted']_vars
    /\ [][\A t \in VMCallers : (StepFrom(t, "s_lock") /\ vstarted) =>
            /\ vpc'[t] = "panicked"
            /\ UNCHANGED <<vstarted, qemu, werr, mpc, xpc, doneCloses, vError, vmRes>>]_vars
    /\ [][\A t \in VMCallers : vpc[t] = "panicked" => vpc'[t] = "panicked"]_vars

\* a second Start panicked while the first one's process runs
C16_Witness ==
    /\ \E t \in VMCallers : vpc[t] = "panicked"
    /\ vadmit = 1
    /\ qemu = "running"
    /\ xpc = "wait"

\* C17: when Start handled a readiness error while no error was recorded, then
\* once Done is closed Error holds that readiness error.
C17_ReadinessErrorKept ==
    (DoneClosed /\ vrecv.err # "nil" /\ vrecv.prior = "nil") => vError = vrecv.err

StartReturned == \E t \in VMCallers : vop[t] = "Start" /\ vpc[t] = "idle"

\* C18: after the monitor's timeout fires Done is eventually closed; a Start
\* that received the timeout has killed the process by the time it returns,
\* Done is then closed by the exit watcher after teardown, and Error holds the
\* timeout only if Start received it from the monitor.
C18_TimeoutKills ==
    /\ []<>(merr = "timeout" => DoneClosed)
    /\ []((vrecv.err = "timeout" /\ StartReturned) => qemu = "exited")
    /\ []((vrecv.err = "timeout" /\ DoneClosed) => (xpc = "done" /\ TornDown))
    /\ [](vError = "timeout" => vrecv.err = "timeout")
    /\ [](serr = "timeout" => merr = "timeout")

\* the timeout reached Start, the process was killed, the watcher closed Done
C18_Witness ==
    /\ vrecv.err = "timeout"
    /\ werr = "killed"
    /\ xpc = "done"
    /\ DoneClosed
    /\ StartReturned

OwnerSteps == {"KillByOwner", "UserRemove", "FolderRemove"}

\* C21: the user and the working folder of a constructed sandbox are removed
\* only by the clean-up step inside the gate body of an Abort that won the
\* gate; when Kill or natural completion won, both are still there when the
\* result set is stored and afterwards; and on a sandbox that borrows the
\* ambient user nothing is ever removed and no kill-by-owner is ever issued.
C21_RemovalOnlyByAbort ==
    /\ []((userRemoved \/ folderRemoved) => (createUser /\ WinnerKinds = {"Abort"}))
    /\ []((resultSet.set /\ WinnerKinds \subseteq {"Kill", "Exit"}) =>
            (~userRemoved /\ ~folderRemoved /\ StepCount("UserRemove") = 0
             /\ StepCount("FolderRemove") = 0))
    /\ [](~createUser =>
            (~userRemoved /\ ~folderRemoved /\ \A s \in OwnerSteps : StepCount(s) = 0))
    /\ [][(userRemoved' # userRemoved \/ folderRemoved' # folderRemoved) =>
            \E t \in Callers :
                /\ pc[t] = "a_clean" /\ pc'[t] = "a_result"
                /\ \E b \in bodies : b.by = t /\ b.kind = "Abort"]_vars

\* on a sandbox with the ambient user: Abort won and returned, a Kill returned
C21_Witness ==
    /\ ~createUser
    /\ WinnerKinds = {"Abort"}
    /\ \E t, u \in Callers : Returned(t, "Abort") /\ Returned(u, "Kill")
    /\ StepCount("KillProcessTree") = 1

\* C26: what Kill and Abort return depends only on the winner of the gate:
\* Kill returns nil unless an Abort won, then the aborted error; Abort returns
\* nil when an Abort won and the terminated error when Kill or natural
\* completion won, and then the stored result set is the winner's.
C26_ErrorByWinner ==
    \A t \in Callers :
        /\ Returned(t, "Kill") =>
             /\ Cardinality(WinnerKinds) = 1
             /\ ret[t].err = IF WinnerKinds = {"Abort"} THEN "ErrSandboxAborted" ELSE "nil"
        /\ Returned(t, "Abort") =>
             /\ Cardinality(WinnerKinds) = 1
             /\ ret[t].err = IF WinnerKinds = {"Abort"} THEN "nil" ELSE "ErrSandboxTerminated"
             /\ WinnerKinds = {"Kill"} => (resultSet = ResultOf(FALSE) /\ resultErr = "nil")
             /\ WinnerKinds = {"Exit"} =>
                  (resultSet = ResultOf(procSuccess) /\ resultErr = "nil")

\* natural completion won with success; an Abort and a Kill returned afterwards
C26_Witness ==
    \E t, u \in Callers :
        /\ WinnerKinds = {"Exit"}
        /\ Returned(t, "Abort") /\ ret[t].err = "ErrSandboxTerminated"
        /\ Returned(u, "Kill") /\ ret[u].err = "nil"
        /\ resultSet = ResultOf(TRUE)

\* C22: the exit watcher stores the exit error only when no error is recorded,
\* so it never replaces an error recorded before, and Error is not written
\* once Done is closed.
C22_FirstWriterWins ==
    /\ [][(xpc = "lock" /\ xpc' = "release" /\ vError # "nil") => vError' = vError]_vars
    /\ [][DoneClosed => vError' = vError]_vars

\* the steps of a Kill call, made directly or by Start after a readiness error
KillStep(t) == StepFrom(t, "k_kill") \/ StepFrom(t, "s_kill")

\* C23: Kill changes nothing when Done is closed and otherwise only ends the
\* process; it never releases network or image, never removes the socket
\* directory, never closes Done.  Network and image are each released at most
\* once, only by the exit watcher, and exactly once when the watcher is done.
C23_KillOnlySignals ==
    /\ [][\A t \in VMCallers : KillStep(t) =>
            /\ UNCHANGED <<vmRes, doneCloses, vError, vmLock, vmMon, vmExit, vstarted>>
            /\ DoneClosed => UNCHANGED <<qemu, werr>>
            /\ (~DoneClosed /\ qemu = "running") => (qemu' = "exited" /\ werr' = "killed")]_vars
    /\ [][(netReleases' # netReleases \/ imgReleases' # imgReleases) =>
            (xpc = "release" /\ xpc' = "remove")]_vars
    /\ [](netReleases <= 1 /\ imgReleases <= 1)
    /\ [](xpc = "done" => (netReleases = 1 /\ imgReleases = 1))

\* two Kill calls returned, one of them having killed the process, and the
\* exit watcher finished
C23_Witness ==
    /\ \E t, u \in VMCallers :
        t # u /\ vop[t] = "Kill" /\ vpc[t] = "idle" /\ vop[u] = "Kill" /\ vpc[u] = "idle"
    /\ werr = "killed"
    /\ xpc = "done"
    /\ netReleases = 1

SocketsSeen == readyClosed /\ vncReady /\ qmpReady

\* C24: when a Start call returns, the monitor has signalled success with both
\* sockets seen, or Start handled an error from the monitor, or Done is
\* closed; success is never signalled on one socket alone; after a spawn
\* failure Done is closed, Error is the spawn error and no exit watcher runs.
C24_StartReturns ==
    /\ [][\A t \in VMCallers :
            (vop[t] = "Start" /\ vpc[t] # "idle" /\ vpc'[t] = "idle") =>
                (SocketsSeen' \/ vrecv'.err # "nil" \/ DoneClosed')]_vars
    /\ [](readyClosed => (vncReady /\ qmpReady))
    /\ []((qemu = "notstarted" /\ DoneClosed) =>
            (StartFailed /\ doneCloses = 1 /\ xpc = "none"
             /\ \A t \in VMCallers : vpc[t] \in {"idle", "s_lock", "panicked", "k_kill", "v_sock"}))

\* Start returned on success: both sockets seen, the process runs, Done is open
C24_Witness ==
    /\ StartReturned
    /\ SocketsSeen
    /\ qemu = "running"
    /\ ~DoneClosed
    /\ vrecv = NoRecv

\* C25: the monitor goroutine does not stay for ever in a send nobody
\* receives, nor in its loop once Done is closed: it always gets to a state
\* where it has ended or is still waiting with Done open.
C25_MonitorEnds == []<>(mpc # "sending" /\ ~(mpc = "loop" /\ DoneClosed))

====
